---------------------------- MODULE Spec2Model ----------------------------
(***************************************************************************)
(* Metadata generation of the RH community store                           *)
(* (scripts/generate_metadata.py): RotorHazardPlugin.fetch_metadata        *)
(* resolves one repository through the GitHub API, and                     *)
(* MetadataGenerator.generate_metadata gathers the resolutions, reduces    *)
(* them to plugin_data / valid_repositories / the counters and writes the  *)
(* four JSON files.                                                        *)
(*                                                                         *)
(* Python values: None is the string NoneVal; a str that names a           *)
(* repository is a sequence of characters (so that str.lower is computed); *)
(* a dict is the sequence of its <<key, value>> items in insertion order.  *)
(* asyncio runs one callback at a time: the API's response to one awaiting *)
(* coroutine is put in `response`, and the coroutine then runs from that   *)
(* await to its next await (or to its return / its exception); `response`  *)
(* keeps that answer, marked handled, until the next one is delivered.     *)
(*                                                                         *)
(* Three specifications: Spec is one run of generate_metadata; SpecRerun   *)
(* is the script run twice over one plugin list and one remote state;      *)
(* SpecSort is scripts/sort_json.py, sort_json called on one file.         *)
(***************************************************************************)
EXTENDS Integers, Sequences, FiniteSets, TLC

VARIABLES
    repos_list,          \* MetadataGenerator.repos_list
    github,              \* what the GitHub API can answer in this run
    main_pc,             \* position of generate_metadata
    pc,                  \* pc[i]: the await at which coroutine i is suspended
    plugin,              \* plugin[i]: the fields of the i-th RotorHazardPlugin
    repo_data,           \* repo_data[i]: local of fetch_metadata
    results,             \* results[i]: what coroutine i returned
    response,            \* the API response delivered last
    idx,                 \* position of `for result in results` (1-based)
    plugin_data,         \* locals of generate_metadata
    valid_repositories,
    skipped_plugins,
    archived_plugins,
    renamed_plugins,
    files,               \* the files under OUTPUT_DIR
    answers,             \* answers[i]: what the API answered to coroutine i, call by call
    before,              \* diff/after.json as the run before this one left it
    json_file,           \* scripts/sort_json.py: the file at file_path
    last_sort            \* scripts/sort_json.py: the last call of sort_json

vars == <<repos_list, github, main_pc, pc, plugin, repo_data, results, response,
          idx, plugin_data, valid_repositories, skipped_plugins,
          archived_plugins, renamed_plugins, files, answers, before,
          json_file, last_sort>>

\* what no step of generate_metadata changes
fixed == <<repos_list, github, answers, before, json_file, last_sort>>

-----------------------------------------------------------------------------
(* Bounds of the explored inputs *)

MaxRepos == 2       \* longest repos_list
MaxItems == 2       \* longest directory listing
MaxReleases == 3    \* longest list of releases
MaxCreated == 3     \* created_at ranges over 1..MaxCreated
MaxElements == 3    \* longest JSON list or object given to sort_json

-----------------------------------------------------------------------------
(* Python values *)

NoneVal == "None"

\* bool(v) of a `str | None`
Truthy(v) == v \notin {NoneVal, ""}

\* str.lower, character by character
LowerChar(c) ==
    CASE c = "O" -> "o"
      [] c = "A" -> "a"
      [] c = "N" -> "n"
      [] OTHER -> c

Lower(s) == [k \in DOMAIN s |-> LowerChar(s[k])]

\* The strings the model orders (dict keys), in Python's str order.
StrOrder ==
    << "domain", "etag_release", "etag_repository",
       "last_fetched", "last_prerelease", "last_updated", "last_version",
       "manifest", "open_issues", "repository", "stargazers_count", "topics" >>

StrRank(s) == CHOOSE k \in DOMAIN StrOrder : StrOrder[k] = s

StrLess(a, b) == StrRank(a) < StrRank(b)

\* dict operations on the sequence of items
DictHas(d, k) == \E n \in DOMAIN d : d[n][1] = k

DictGet(d, k) == d[CHOOSE n \in DOMAIN d : d[n][1] = k][2]

\* dict.get(k): None when the key is absent
DictGetOrNone(d, k) == IF DictHas(d, k) THEN DictGet(d, k) ELSE NoneVal

\* d[k] = v: an existing key keeps its position
DictSet(d, k, v) ==
    IF DictHas(d, k)
    THEN [n \in DOMAIN d |-> IF d[n][1] = k THEN <<k, v>> ELSE d[n]]
    ELSE Append(d, <<k, v>>)

DictKeys(d) == [n \in DOMAIN d |-> d[n][1]]

\* list.index(x): position of the first occurrence (1-based here)
ListIndex(l, x) == CHOOSE n \in DOMAIN l : l[n] = x /\ \A m \in 1..(n - 1) : l[m] # x

\* sorted(d.items()): insertion of each item after the items not greater
RECURSIVE SortedItems(_)
SortedItems(d) ==
    IF d = <<>> THEN <<>>
    ELSE LET rest == SortedItems(SubSeq(d, 1, Len(d) - 1))
             x == d[Len(d)]
             NotAfter(y) == ~StrLess(x[1], y[1])
             After(y) == StrLess(x[1], y[1])
         IN SelectSeq(rest, NotAfter) \o <<x>> \o SelectSeq(rest, After)


-----------------------------------------------------------------------------
(* The GitHub API (aiogithubapi): what a call can answer *)

Fail(kind) == [status |-> kind, etag |-> NoneVal, data |-> NoneVal]

Ok(d, e) == [status |-> "ok", etag |-> e, data |-> d]

Failures == {Fail("NotFound"), Fail("OtherError")}

NoResponse ==
    [to |-> 0, op |-> "none", handled |-> TRUE, status |-> "none", etag |-> NoneVal,
     data |-> NoneVal]

SeqsUpTo(S, n) == UNION {[1..k -> S] : k \in 0..n}

\* a directory holds no two entries of one name
DistinctNames(l) == \A m, n \in DOMAIN l : l[m].name = l[n].name => m = n

Item(n, t) == [name |-> n, type |-> t]

\* repository names: the input spells O/a; the API knows o/a and n/a
InputNames == {<<"O", "/", "a">>, <<"n", "/", "a">>}

FullNames == {<<"o", "/", "a">>, <<"n", "/", "a">>}

RepoIds == {101, 102}

Repository(a, f, n) ==
    [archived |-> a, full_name |-> f, id |-> n, updated_at |-> "2025-01-01T00:00:00Z",
     open_issues_count |-> 0, stargazers_count |-> 0, topics |-> <<"rotorhazard">>]

Repositories == {Repository(a, f, n) : a \in BOOLEAN, f \in FullNames, n \in RepoIds}

RootItems ==
    {Item("custom_plugins", "dir"), Item("custom_plugins", "file"),
     Item("docs", "dir"), Item("README.md", "file")}

FolderItems == {Item("d1", "dir"), Item("d2", "dir"), Item("__init__.py", "file")}

RootListings == {l \in SeqsUpTo(RootItems, MaxItems) : DistinctNames(l)}

FolderListings == {l \in SeqsUpTo(FolderItems, MaxItems) : DistinctNames(l)}

\* the file content behind response.data.content: bytes that are not UTF-8,
\* text that is not JSON, or a JSON document
JsonObject(items) == [utf8 |-> TRUE, json |-> TRUE, type |-> "object", items |-> items]

JsonArray == [utf8 |-> TRUE, json |-> TRUE, type |-> "array", items |-> <<>>]

NotJson == [utf8 |-> TRUE, json |-> FALSE, type |-> "none", items |-> <<>>]

NotUtf8 == [utf8 |-> FALSE, json |-> FALSE, type |-> "none", items |-> <<>>]

Opt(present, k, v) == IF present THEN <<(<<k, v>>)>> ELSE <<>>

ManifestObject(dom, hasName, hasZip) ==
    JsonObject(Opt(dom # NoneVal, "domain", dom)
               \o Opt(hasName, "name", "Plugin")
               \o <<(<<"description", "A plugin">>)>>
               \o Opt(hasZip, "zip_release", "true"))

ManifestObjects ==
    {ManifestObject(d, n, z) : d \in {NoneVal, "d1", "d2"}, n \in BOOLEAN, z \in BOOLEAN}

ManifestFiles == ManifestObjects \cup {JsonArray, NotJson, NotUtf8}

Release(t, c, p) == [tag_name |-> t, created_at |-> c, prerelease |-> p]

TagNames(pre) == IF pre THEN {"v3-rc", "v4-rc"} ELSE {"v1", "v2"}

Releases ==
    UNION {{Release(t, c, p) : t \in TagNames(p), c \in 1..MaxCreated} : p \in BOOLEAN}

ReleaseLists == SeqsUpTo(Releases, MaxReleases)

\* One release list per kind of outcome
FewReleaseLists ==
    {<<>>, <<Release("v1", 1, FALSE)>>, <<Release("v3-rc", 1, TRUE)>>}

\* The API as a whole resolution explores it: every listing and manifest
ResolverRemote ==
    [repos |-> Repositories, etags |-> {NoneVal, "W/e"},
     root |-> RootListings, folder |-> FolderListings,
     manifests |-> ManifestFiles, releases |-> FewReleaseLists,
     clock |-> {"t1", "t2"}]

\* The API as the release resolution explores it: every list of releases
ReleasesRemote ==
    [repos |-> {Repository(FALSE, f, 101) : f \in FullNames}, etags |-> {"W/e"},
     root |-> {<<Item("custom_plugins", "dir")>>},
     folder |-> {<<Item("d1", "dir")>>},
     manifests |-> {ManifestObject("d1", TRUE, FALSE)}, releases |-> ReleaseLists,
     clock |-> {"t1"}]

\* The API as a batch explores it: one answer per kind of outcome
BatchRemote ==
    [repos |-> Repositories, etags |-> {"W/e"},
     root |-> {<<>>, <<Item("custom_plugins", "dir")>>},
     folder |-> {<<>>, <<Item("d1", "dir")>>},
     manifests |-> {ManifestObject("d1", TRUE, FALSE), ManifestObject("d2", TRUE, FALSE)},
     releases |-> {<<>>, <<Release("v1", 1, FALSE)>>},
     clock |-> {"t1"}]

\* the script run twice over one remote state: what the first run can be
\* answered, and the second, whose answers carry an etag where those of the
\* first carried none and whose clock reads a later time
FirstRunRemote ==
    [repos |-> {Repository(FALSE, f, n) : f \in FullNames, n \in RepoIds}
                  \cup {Repository(TRUE, <<"o", "/", "a">>, 101)},
     etags |-> {NoneVal},
     root |-> {<<Item("custom_plugins", "dir")>>},
     folder |-> {<<Item("d1", "dir")>>},
     manifests |-> {ManifestObject("d1", TRUE, FALSE)},
     releases |-> {<<>>, <<Release("v1", 1, FALSE), Release("v3-rc", 2, TRUE)>>},
     clock |-> {"t1"}]

SecondRunRemote == [FirstRunRemote EXCEPT !.etags = {"W/e"}, !.clock = {"t2"}]

\* `github` names the part of the API's behaviour a run explores
Remote ==
    CASE github = "batch" -> BatchRemote
      [] github = "resolver" -> ResolverRemote
      [] github = "releases" -> ReleasesRemote
      [] github = "first" -> FirstRunRemote
      [] github = "second" -> SecondRunRemote

\* the answers the API can give to the call `op`
Answers(op) ==
    Failures \cup
    CASE op = "repos.get" -> {Ok(d, e) : d \in Remote.repos, e \in Remote.etags}
      [] op = "contents.root" -> {Ok(l, NoneVal) : l \in Remote.root}
      [] op = "contents.custom_plugins" -> {Ok(l, NoneVal) : l \in Remote.folder}
      [] op = "contents.manifest" -> {Ok(c, NoneVal) : c \in Remote.manifests}
      [] op = "releases.list" -> {Ok(l, e) : l \in Remote.releases, e \in Remote.etags}
      [] OTHER -> {}

-----------------------------------------------------------------------------
(* RotorHazardPlugin *)

\* RotorHazardPlugin.__init__
NewPlugin(repo) ==
    [repo |-> repo, domain |-> NoneVal, metadata |-> <<>>, manifest_data |-> <<>>,
     etag_repository |-> NoneVal, etag_release |-> NoneVal]

\* a plugin whose coroutine has finished: nothing refers to it any more
Released == NewPlugin(<<>>)

NoData == [status |-> "none", etag |-> NoneVal, data |-> NoneVal]

\* what a coroutine gives to gather
Pending == [kind |-> "pending", value |-> NoneVal]

ReturnNone == [kind |-> "None", value |-> NoneVal]

ReturnStr(s) == [kind |-> "str", value |-> s]

ReturnDict(items) == [kind |-> "dict", value |-> items]

Raise(type) == [kind |-> "exception", value |-> type]

\* (variant) any entry named custom_plugins will do
HasPluginsEntry(listing) ==
    \E n \in DOMAIN listing : listing[n].name = "custom_plugins"

\* get_plugin_domain: the `custom_plugins` entry of type dir, if any
HasPluginsFolder(listing) ==
    \E n \in DOMAIN listing :
        listing[n].name = "custom_plugins" /\ listing[n].type = "dir"

\* get_plugin_domain: subfolders = [item for item in ... if item.type == "dir"]
IsDir(item) == item.type = "dir"

Subfolders(listing) == SelectSeq(listing, IsDir)

\* (variant) the folder count checked as `len(subfolders) < 1`
AtLeastOneDomainFolder(listing) == Len(Subfolders(listing)) >= 1

\* get_plugin_domain: exactly one domain folder
OneDomainFolder(listing) == Len(Subfolders(listing)) = 1

\* json.loads(base64.b64decode(content).decode("utf-8"))
JsonLoads(content) ==
    IF ~content.utf8 THEN Raise("UnicodeDecodeError")
    ELSE IF ~content.json THEN Raise("JSONDecodeError")
    ELSE [kind |-> content.type, value |-> content.items]

\* manifest.get("domain"): only a dict has .get
ManifestGetDomain(manifest) ==
    IF manifest.kind = "object"
    THEN [kind |-> "str", value |-> DictGetOrNone(manifest.value, "domain")]
    ELSE Raise("AttributeError")

\* validate_domain_manifest after its await: what it returns ("True", "False",
\* "None" when an except clause swallowed the exception) or raises
ExceptManifest(type) ==
    IF type \in {"NotFound", "OtherError", "JSONDecodeError"}
    THEN ReturnNone ELSE Raise(type)

\* (variant) the manifest's domain is read but not compared with the folder
ValidateDomainManifestUnchecked(domain, resp) ==
    IF resp.status # "ok" THEN ExceptManifest(resp.status)
    ELSE LET manifest == JsonLoads(resp.data) IN
         IF manifest.kind = "exception" THEN ExceptManifest(manifest.value)
         ELSE LET manifest_domain == ManifestGetDomain(manifest) IN
              IF manifest_domain.kind = "exception"
              THEN ExceptManifest(manifest_domain.value)
              ELSE ReturnStr("True")

ValidateDomainManifest(domain, resp) ==
    IF resp.status # "ok" THEN ExceptManifest(resp.status)
    ELSE LET manifest == JsonLoads(resp.data) IN
         IF manifest.kind = "exception" THEN ExceptManifest(manifest.value)
         ELSE LET manifest_domain == ManifestGetDomain(manifest) IN
              IF manifest_domain.kind = "exception"
              THEN ExceptManifest(manifest_domain.value)
              ELSE IF manifest_domain.value # domain THEN ReturnStr("False")
              ELSE ReturnStr("True")

\* (variant) sorted(...)[::-1]: ascending, then reversed, which also reverses
\* the releases of one creation time
RECURSIVE SortedAscending(_)
SortedAscending(l) ==
    IF l = <<>> THEN <<>>
    ELSE LET rest == SortedAscending(SubSeq(l, 1, Len(l) - 1))
             x == l[Len(l)]
             NotNewer(y) == y.created_at <= x.created_at
             Newer(y) == y.created_at > x.created_at
         IN SelectSeq(rest, NotNewer) \o <<x>> \o SelectSeq(rest, Newer)

SortedReleasesReversed(l) ==
    LET a == SortedAscending(l) IN [n \in DOMAIN a |-> a[Len(a) + 1 - n]]

\* sorted(releases.data, key=lambda r: r.created_at, reverse=True): stable,
\* releases of one creation time keep their order
RECURSIVE SortedReleases(_)
SortedReleases(l) ==
    IF l = <<>> THEN <<>>
    ELSE LET rest == SortedReleases(SubSeq(l, 1, Len(l) - 1))
             x == l[Len(l)]
             NotOlder(y) == y.created_at >= x.created_at
             Older(y) == y.created_at < x.created_at
         IN SelectSeq(rest, NotOlder) \o <<x>> \o SelectSeq(rest, Older)

\* next((r.tag_name for r in sorted_releases if <r.prerelease = pre>), None)
FirstTag(sorted_releases, pre) ==
    LET Kind(r) == r.prerelease = pre
        found == SelectSeq(sorted_releases, Kind)
    IN IF found = <<>> THEN NoneVal ELSE found[1].tag_name

\* fetch_releases after its await: the tuple it returns, or None when an
\* except clause swallowed the exception
ReleaseTuple(latest_release, latest_prerelease) ==
    [kind |-> "tuple", value |-> <<latest_release, latest_prerelease>>]

FetchReleases(resp) ==
    IF resp.status # "ok" THEN ReturnNone
    ELSE IF resp.data = <<>> THEN ReleaseTuple(NoneVal, NoneVal)
    ELSE LET sorted_releases == SortedReleases(resp.data)
         IN ReleaseTuple(FirstTag(sorted_releases, FALSE), FirstTag(sorted_releases, TRUE))

\* fetch_releases: if releases.etag: self.etag_release = releases.etag
EtagAfter(old, resp) == IF resp.status = "ok" /\ Truthy(resp.etag) THEN resp.etag ELSE old

\* fetch_metadata: the manifest part of the metadata
ManifestMetadata(manifest_data) ==
    << <<"name", DictGetOrNone(manifest_data, "name")>>,
       <<"description", DictGetOrNone(manifest_data, "description")>> >>
    \o Opt(DictHas(manifest_data, "zip_release"), "zip_release",
           DictGetOrNone(manifest_data, "zip_release"))
    \o Opt(DictHas(manifest_data, "zip_filename"), "zip_filename",
           DictGetOrNone(manifest_data, "zip_filename"))

\* (variant) the metadata is not sorted after last_prerelease is added
BuildMetadataUnsorted(p, rd, last_version, last_prerelease_version, now) ==
    LET base == << <<"etag_release", p.etag_release>>,
                   <<"etag_repository", p.etag_repository>>,
                   <<"last_fetched", now>>,
                   <<"last_updated", rd.data.updated_at>>,
                   <<"last_version", last_version>>,
                   <<"open_issues", rd.data.open_issues_count>>,
                   <<"repository", p.repo>>,
                   <<"stargazers_count", rd.data.stargazers_count>>,
                   <<"topics", rd.data.topics>> >>
        withPre == IF Truthy(last_prerelease_version)
                   THEN DictSet(base, "last_prerelease", last_prerelease_version)
                   ELSE base
    IN << <<"manifest", ManifestMetadata(p.manifest_data)>>,
          <<"domain", p.domain>> >> \o withPre

\* fetch_metadata: self.metadata, from the plugin p, repo_data rd, the release
\* tuple and datetime.now
BuildMetadata(p, rd, last_version, last_prerelease_version, now) ==
    LET base == << <<"etag_release", p.etag_release>>,
                   <<"etag_repository", p.etag_repository>>,
                   <<"last_fetched", now>>,
                   <<"last_updated", rd.data.updated_at>>,
                   <<"last_version", last_version>>,
                   <<"open_issues", rd.data.open_issues_count>>,
                   <<"repository", p.repo>>,
                   <<"stargazers_count", rd.data.stargazers_count>>,
                   <<"topics", rd.data.topics>> >>
        withPre == IF Truthy(last_prerelease_version)
                   THEN DictSet(base, "last_prerelease", last_prerelease_version)
                   ELSE base
    IN << <<"manifest", ManifestMetadata(p.manifest_data)>>,
          <<"domain", p.domain>> >> \o SortedItems(withPre)

\* (variant) the rename check without .lower()
RepoAfterRenameCaseSensitive(repo, full_name) ==
    IF full_name # repo THEN full_name ELSE repo

\* fetch_metadata: the repository name after the rename check
RepoAfterRename(repo, full_name) ==
    IF Lower(full_name) # Lower(repo) THEN full_name ELSE repo

-----------------------------------------------------------------------------
(* MetadataGenerator: pure parts *)

\* (variant) the fetch time is compared too
COMPARE_IGNORE_Etags == {"etag_release", "etag_repository"}

COMPARE_IGNORE == {"last_fetched", "etag_release", "etag_repository"}

\* bool(result) for what fetch_metadata returns
ResultTruthy(result) ==
    CASE result.kind = "None" -> FALSE
      [] result.kind = "str" -> result.value # ""
      [] result.kind = "dict" -> result.value # <<>>
      [] OTHER -> FALSE

\* (variant) an archived result falls through to the else branch
ResultBranchArchivedSkipped(result) ==
    IF result.kind = "dict" /\ ResultTruthy(result) THEN "valid" ELSE "skipped"

\* generate_metadata: the branch of the if / elif / else taken for a result
ResultBranch(result) ==
    IF result.kind = "str" /\ result.value = "archived" THEN "archived"
    ELSE IF ResultTruthy(result) THEN "valid"
    ELSE "skipped"

\* (variant) the repository string is put in front
ValidRepositoriesPrepended(valid, repository) == <<repository>> \o valid

\* generate_metadata: valid_repositories.append(metadata["repository"])
ValidRepositoriesAfter(valid, repository) == Append(valid, repository)

\* generate_metadata: the entry of repos_list the new repository is compared to
ComparedEntry(repos, valid, repository) == repos[ListIndex(valid, repository)]

\* generate_metadata: the renamed counter after a valid result
RenamedAfter(renamed, repos, valid, repository) ==
    IF repository # ComparedEntry(repos, valid, repository) THEN renamed + 1 ELSE renamed

\* (variant) only the fetch time is removed
FilteredMetadataKeepsEtags(metadata) ==
    LET Kept(item) == item[1] # "last_fetched" IN SelectSeq(metadata, Kept)

\* save_filtered_json: the metadata without the ignored keys
FilteredMetadata(metadata) ==
    LET Kept(item) == item[1] \notin COMPARE_IGNORE IN SelectSeq(metadata, Kept)

FilteredData(data) == [n \in DOMAIN data |-> <<data[n][1], FilteredMetadata(data[n][2])>>]

NoFile == [written |-> FALSE, content |-> <<>>]

File(content) == [written |-> TRUE, content |-> content]

\* (variant) total taken from the valid repositories
SummaryTotalOfValid(total, valid, archived, renamed, skipped, elapsed) ==
    << <<"total_plugins", valid>>, <<"valid_plugins", valid>>,
       <<"archived_plugins", archived>>, <<"renamed_plugins", renamed>>,
       <<"skipped_plugins", skipped>>, <<"execution_time_seconds", elapsed>> >>

\* summarize_results: the summary dict
Summary(total, valid, archived, renamed, skipped, elapsed) ==
    << <<"total_plugins", total>>, <<"valid_plugins", valid>>,
       <<"archived_plugins", archived>>, <<"renamed_plugins", renamed>>,
       <<"skipped_plugins", skipped>>, <<"execution_time_seconds", elapsed>> >>

-----------------------------------------------------------------------------
(* scripts/sort_json.py: values *)

\* the characters of the strings the model sorts, in code point order
CharOrder == <<"0", "1", "2", "3", "4", "5", "6", "7", "8", "9", "a", "b", "c">>

CharRank(c) == CHOOSE k \in DOMAIN CharOrder : CharOrder[k] = c

\* str.__lt__ on sequences of characters: a is a proper prefix of b, or is
\* smaller at the first position where they differ
CharsLess(a, b) ==
    \E k \in 1..Len(b) :
        /\ \A j \in 1..(k - 1) : j <= Len(a) /\ a[j] = b[j]
        /\ k > Len(a) \/ CharRank(a[k]) < CharRank(b[k])

\* json.dumps of a non-negative int: its decimal digits
RECURSIVE Digits(_)
Digits(n) ==
    IF n < 10 THEN <<CharOrder[n + 1]>>
    ELSE Digits(n \div 10) \o <<CharOrder[(n % 10) + 1]>>

\* an element of a JSON list: a str or an int
Str(chars) == [str |-> TRUE, chars |-> chars, n |-> 0]

Num(n) == [str |-> FALSE, chars |-> <<>>, n |-> n]

\* sort_json: key=lambda x: x if isinstance(x, str) else json.dumps(x)
SortKey(x) == IF x.str THEN x.chars ELSE Digits(x.n)

\* sorted(data, key=...): stable, each element after the elements not greater
RECURSIVE SortedList(_)
SortedList(l) ==
    IF l = <<>> THEN <<>>
    ELSE LET rest == SortedList(SubSeq(l, 1, Len(l) - 1))
             x == l[Len(l)]
             NotAfter(y) == ~CharsLess(SortKey(x), SortKey(y))
             After(y) == CharsLess(SortKey(x), SortKey(y))
         IN SelectSeq(rest, NotAfter) \o <<x>> \o SelectSeq(rest, After)

\* {k: data[k] for k in sorted(data)}: the items in the order of their keys
RECURSIVE SortedDict(_)
SortedDict(d) ==
    IF d = <<>> THEN <<>>
    ELSE LET rest == SortedDict(SubSeq(d, 1, Len(d) - 1))
             x == d[Len(d)]
             NotAfter(y) == ~CharsLess(x[1], y[1])
             After(y) == CharsLess(x[1], y[1])
         IN SelectSeq(rest, NotAfter) \o <<x>> \o SelectSeq(rest, After)

\* data != sorted_data: lists differ when they differ at some position, dicts
\* when they differ in their set of items, whatever the order of the keys
NotEqual(kind, data, sorted_data) ==
    IF kind = "dict"
    THEN {data[n] : n \in DOMAIN data} # {sorted_data[n] : n \in DOMAIN sorted_data}
    ELSE data # sorted_data

\* the strings, numbers and keys of the explored files
StrElements == {Str(<<"a">>), Str(<<"b">>), Str(<<"a", "b">>)}

NumElements == {Num(2), Num(10)}

DictKeyNames == {<<"a">>, <<"b">>, <<"c">>}

DictValues == {1, 2}

\* a file: what json.load makes of it (a list, a dict, another JSON value, no
\* JSON, or no file to open), its value, and how its text is laid out
JsonFile(kind, value, layout) == [kind |-> kind, value |-> value, layout |-> layout]

Layouts == {"compact", "indent2"}

JsonFiles ==
    {JsonFile("list", l, t) :
        l \in SeqsUpTo(StrElements, MaxElements) \cup SeqsUpTo(NumElements, MaxElements),
        t \in Layouts}
    \cup {JsonFile("dict", d, t) :
            d \in {e \in SeqsUpTo(DictKeyNames \X DictValues, MaxElements) :
                      \A a, b \in DOMAIN e : e[a][1] = e[b][1] => a = b},
            t \in Layouts}
    \cup {JsonFile("scalar", <<>>, t) : t \in Layouts}
    \cup {JsonFile("invalid", <<>>, "compact"), JsonFile("missing", <<>>, "compact")}

\* json.dump(sorted_data, file, indent=2) and file.write("\n")
JsonDump(kind, sorted_data) == JsonFile(kind, sorted_data, "indent2")

NoCall ==
    [made |-> FALSE, check_only |-> FALSE, returned |-> FALSE,
     before |-> JsonFile("missing", <<>>, "compact"), again |-> FALSE]

\* no call of sort_json is part of a run of generate_metadata
NoSort ==
    /\ json_file = JsonFile("missing", <<>>, "compact")
    /\ last_sort = NoCall

\* sort_json(file_path, check_only): the file it leaves and the value it returns
SortJsonResult(file, check_only) ==
    IF file.kind \in {"missing", "invalid", "scalar"}
    THEN [file |-> file, returned |-> FALSE]
    ELSE LET data == file.value
             sorted_data == IF file.kind = "list" THEN SortedList(data) ELSE SortedDict(data)
         IN IF check_only
            THEN [file |-> file, returned |-> ~NotEqual(file.kind, data, sorted_data)]
            ELSE IF NotEqual(file.kind, data, sorted_data)
            THEN [file |-> JsonDump(file.kind, sorted_data), returned |-> TRUE]
            ELSE [file |-> file, returned |-> TRUE]

-----------------------------------------------------------------------------
(* State *)

Tasks == DOMAIN pc

AwaitOps ==
    {"repos.get", "contents.root", "contents.custom_plugins", "contents.manifest",
     "releases.list"}

\* the process before generate_metadata is called: nothing fetched, nothing
\* written
Constructed ==
    /\ main_pc = "start"
    /\ pc = <<>>
    /\ plugin = <<>>
    /\ repo_data = <<>>
    /\ results = <<>>
    /\ response = NoResponse
    /\ idx = 1
    /\ plugin_data = <<>>
    /\ valid_repositories = <<>>
    /\ skipped_plugins = 0
    /\ archived_plugins = 0
    /\ renamed_plugins = 0
    /\ files = [f \in {"diff/after.json", "data.json", "repositories.json", "summary.json"}
                  |-> NoFile]
    /\ answers = [i \in DOMAIN repos_list |-> <<>>]
    /\ before = NoFile

Init ==
    /\ \/ /\ github = "batch"
          /\ repos_list \in SeqsUpTo(InputNames, MaxRepos)
       \/ /\ github \in {"resolver", "releases"}
          /\ repos_list \in [1..1 -> InputNames]
    /\ Constructed
    /\ NoSort

reduction == <<idx, plugin_data, valid_repositories, skipped_plugins,
               archived_plugins, renamed_plugins>>

\* generate_metadata up to `await asyncio.gather(*tasks)`: every coroutine is
\* created and runs to its first await
StartGather ==
    /\ main_pc = "start"
    /\ main_pc' = "gather"
    /\ pc' = [i \in DOMAIN repos_list |-> "repos.get"]
    /\ plugin' = [i \in DOMAIN repos_list |-> NewPlugin(repos_list[i])]
    /\ repo_data' = [i \in DOMAIN repos_list |-> NoData]
    /\ results' = [i \in DOMAIN repos_list |-> Pending]
    /\ UNCHANGED <<fixed, response, reduction, files>>

\* the answer a is handed to coroutine i
Deliver(i, a) ==
    response' = [to |-> i, op |-> pc[i], handled |-> FALSE, status |-> a.status,
                 etag |-> a.etag, data |-> a.data]

\* the API answers the call coroutine i awaits
Respond(i) ==
    /\ main_pc = "gather"
    /\ response.handled
    /\ pc[i] \in AwaitOps
    /\ \E a \in Answers(pc[i]) : Deliver(i, a)
    /\ UNCHANGED <<fixed, main_pc, pc, plugin, repo_data, results,
                   reduction, files>>

Delivered(i, op) == ~response.handled /\ response.to = i /\ response.op = op

\* coroutine i ends: it returns r or raises
Finish(i, r) ==
    /\ pc' = [pc EXCEPT ![i] = IF r.kind = "exception" THEN "raised" ELSE "returned"]
    /\ results' = [results EXCEPT ![i] = r]
    /\ plugin' = [plugin EXCEPT ![i] = Released]
    /\ repo_data' = [repo_data EXCEPT ![i] = NoData]

\* coroutine i goes on to await `op` with its plugin now p
Await(i, op, p) ==
    /\ pc' = [pc EXCEPT ![i] = op]
    /\ plugin' = [plugin EXCEPT ![i] = p]
    /\ UNCHANGED results

\* fetch_metadata, from `await github.repos.get` to the first await of
\* get_plugin_domain
OnRepository(i) ==
    /\ Delivered(i, "repos.get")
    /\ response' = [response EXCEPT !.handled = TRUE]
    /\ IF response.status # "ok"
       THEN Finish(i, ReturnNone)
       ELSE IF response.data.archived
       THEN Finish(i, ReturnStr("archived"))
       ELSE /\ Await(i, "contents.root",
                     [plugin[i] EXCEPT !.repo = RepoAfterRename(@, response.data.full_name)])
            /\ repo_data' = [repo_data EXCEPT ![i] =
                               [status |-> "ok", etag |-> response.etag, data |-> response.data]]
    /\ UNCHANGED <<fixed, main_pc, reduction, files>>

\* get_plugin_domain, from its first await to its second
OnRootContents(i) ==
    /\ Delivered(i, "contents.root")
    /\ response' = [response EXCEPT !.handled = TRUE]
    /\ IF response.status # "ok" \/ ~HasPluginsFolder(response.data)
       THEN Finish(i, ReturnNone)
       ELSE Await(i, "contents.custom_plugins", plugin[i]) /\ UNCHANGED repo_data
    /\ UNCHANGED <<fixed, main_pc, reduction, files>>

\* get_plugin_domain from its second await, then validate_domain_manifest to
\* its await
OnFolderContents(i) ==
    /\ Delivered(i, "contents.custom_plugins")
    /\ response' = [response EXCEPT !.handled = TRUE]
    /\ IF response.status # "ok" \/ ~OneDomainFolder(response.data)
       THEN Finish(i, ReturnNone)
       ELSE LET domain == Subfolders(response.data)[1].name IN
            IF ~Truthy(domain)
            THEN Finish(i, ReturnNone)
            ELSE Await(i, "contents.manifest", [plugin[i] EXCEPT !.domain = domain])
                 /\ UNCHANGED repo_data
    /\ UNCHANGED <<fixed, main_pc, reduction, files>>

\* validate_domain_manifest from its await, then fetch_metadata to the await
\* of fetch_releases
OnManifest(i) ==
    /\ Delivered(i, "contents.manifest")
    /\ response' = [response EXCEPT !.handled = TRUE]
    /\ LET valid == ValidateDomainManifest(plugin[i].domain, response) IN
       IF valid.kind = "exception"
       THEN Finish(i, valid)
       ELSE IF valid.kind = "None" \/ valid.value = "False"
       THEN Finish(i, ReturnNone)
       ELSE Await(i, "releases.list",
                  [plugin[i] EXCEPT
                     !.manifest_data = JsonLoads(response.data).value,
                     !.etag_repository =
                        IF Truthy(repo_data[i].etag) THEN repo_data[i].etag ELSE @])
            /\ UNCHANGED repo_data
    /\ UNCHANGED <<fixed, main_pc, reduction, files>>

\* fetch_releases from its await, then fetch_metadata to its return
OnReleases(i) ==
    /\ Delivered(i, "releases.list")
    /\ response' = [response EXCEPT !.handled = TRUE]
    /\ LET releases == FetchReleases(response)
           p == [plugin[i] EXCEPT !.etag_release = EtagAfter(@, response)]
       IN IF releases.kind # "tuple"
          THEN Finish(i, Raise("TypeError"))
          ELSE \E now \in Remote.clock :
                 Finish(i, ReturnDict(<< <<repo_data[i].data.id,
                                           BuildMetadata(p, repo_data[i], releases.value[1],
                                                         releases.value[2], now)>> >>))
    /\ UNCHANGED <<fixed, main_pc, reduction, files>>

\* a coroutine raised: gather raises in generate_metadata, which ends with
\* that exception; asyncio.run cancels the coroutines still waiting
GatherRaises ==
    /\ main_pc = "gather"
    /\ response.handled
    /\ \E i \in Tasks : pc[i] = "raised"
    /\ main_pc' = "aborted"
    /\ response' = NoResponse
    /\ pc' = [i \in Tasks |-> IF pc[i] \in AwaitOps THEN "cancelled" ELSE pc[i]]
    /\ plugin' = [i \in Tasks |-> Released]
    /\ repo_data' = [i \in Tasks |-> NoData]
    /\ UNCHANGED <<fixed, results, reduction, files>>

\* every coroutine returned: gather returns the results
GatherReturns ==
    /\ main_pc = "gather"
    /\ response.handled
    /\ \A i \in Tasks : pc[i] = "returned"
    /\ main_pc' = "reduce"
    /\ idx' = 1
    /\ response' = NoResponse
    /\ UNCHANGED <<fixed, pc, plugin, repo_data, results,
                   plugin_data, valid_repositories, skipped_plugins,
                   archived_plugins, renamed_plugins, files>>

\* one iteration of `for result in results`
ReduceResult ==
    /\ main_pc = "reduce"
    /\ idx <= Len(results)
    /\ idx' = idx + 1
    /\ LET result == results[idx]
           branch == ResultBranch(result)
       IN CASE branch = "archived" ->
                 /\ archived_plugins' = archived_plugins + 1
                 /\ UNCHANGED <<plugin_data, valid_repositories, renamed_plugins,
                                skipped_plugins>>
            [] branch = "valid" ->
                 LET repo_id == result.value[1][1]
                     metadata == result.value[1][2]
                     repository == DictGet(metadata, "repository")
                 IN /\ plugin_data' = DictSet(plugin_data, repo_id, metadata)
                    /\ valid_repositories' =
                          ValidRepositoriesAfter(valid_repositories, repository)
                    /\ renamed_plugins' =
                          RenamedAfter(renamed_plugins, repos_list,
                                       ValidRepositoriesAfter(valid_repositories, repository),
                                       repository)
                    /\ UNCHANGED <<archived_plugins, skipped_plugins>>
            [] OTHER ->
                 /\ skipped_plugins' = skipped_plugins + 1
                 /\ UNCHANGED <<plugin_data, valid_repositories, renamed_plugins,
                                archived_plugins>>
    /\ UNCHANGED <<fixed, main_pc, pc, plugin, repo_data, results,
                   response, files>>

Write(path, content, next) ==
    /\ files' = [files EXCEPT ![path] = File(content)]
    /\ main_pc' = next
    /\ UNCHANGED <<fixed, pc, plugin, repo_data, results, response,
                   reduction>>

\* save_filtered_json(".../diff/after.json", plugin_data), after the loop
SaveFilteredJson ==
    /\ main_pc = "reduce"
    /\ idx > Len(results)
    /\ Write("diff/after.json", FilteredData(plugin_data), "save_data")

\* save_json(".../data.json", plugin_data)
SaveDataJson ==
    /\ main_pc = "save_data"
    /\ Write("data.json", plugin_data, "save_repositories")

\* save_json(".../repositories.json", valid_repositories)
SaveRepositoriesJson ==
    /\ main_pc = "save_repositories"
    /\ Write("repositories.json", valid_repositories, "summarize")

\* summarize_results: elapsed_time is whatever perf_counter measured
SummarizeResults ==
    /\ main_pc = "summarize"
    /\ \E elapsed \in {0, 1} :
          Write("summary.json",
                Summary(Len(repos_list), Len(valid_repositories), archived_plugins,
                        renamed_plugins, skipped_plugins, elapsed),
                "done")

Next ==
    \/ StartGather
    \/ \E i \in Tasks : Respond(i)
    \/ \E i \in Tasks : OnRepository(i)
    \/ \E i \in Tasks : OnRootContents(i)
    \/ \E i \in Tasks : OnFolderContents(i)
    \/ \E i \in Tasks : OnManifest(i)
    \/ \E i \in Tasks : OnReleases(i)
    \/ GatherRaises
    \/ GatherReturns
    \/ ReduceResult
    \/ SaveFilteredJson
    \/ SaveDataJson
    \/ SaveRepositoriesJson
    \/ SummarizeResults

Spec == Init /\ [][Next]_vars

-----------------------------------------------------------------------------
(* The script run twice over the same plugin list and remote state *)

\* the place of a call among the calls of one resolution
OpNumber(op) ==
    CASE op = "repos.get" -> 1
      [] op = "contents.root" -> 2
      [] op = "contents.custom_plugins" -> 3
      [] op = "contents.manifest" -> 4
      [] op = "releases.list" -> 5

InitRerun ==
    /\ github = "first"
    /\ repos_list \in SeqsUpTo(InputNames, MaxRepos)
    /\ Constructed
    /\ NoSort

\* first run: the API answers the call coroutine i awaits; what it answered
\* is the remote state for the second run
RespondFirstRun(i) ==
    /\ github = "first"
    /\ main_pc = "gather"
    /\ response.handled
    /\ pc[i] \in AwaitOps
    /\ \E a \in Answers(pc[i]) :
          /\ Deliver(i, a)
          /\ answers' = [answers EXCEPT
                            ![i] = Append(@, [status |-> a.status, data |-> a.data])]
    /\ UNCHANGED <<repos_list, github, before, main_pc, pc, plugin, repo_data, results,
                   reduction, files, json_file, last_sort>>

\* second run: the API answers the same call of the same entry with the same
\* status and data, under any etag it can send
RespondSecondRun(i) ==
    /\ github = "second"
    /\ main_pc = "gather"
    /\ response.handled
    /\ pc[i] \in AwaitOps
    /\ OpNumber(pc[i]) <= Len(answers[i])
    /\ \E a \in Answers(pc[i]) :
          /\ a.status = answers[i][OpNumber(pc[i])].status
          /\ a.data = answers[i][OpNumber(pc[i])].data
          /\ Deliver(i, a)
    /\ UNCHANGED <<fixed, main_pc, pc, plugin, repo_data, results, reduction, files>>

\* the script is started again once the first run has written its files: a
\* new process over the same plugin list, the files left where they are
StartSecondRun ==
    /\ github = "first"
    /\ main_pc = "done"
    /\ github' = "second"
    /\ before' = files["diff/after.json"]
    /\ main_pc' = "start"
    /\ pc' = <<>>
    /\ plugin' = <<>>
    /\ repo_data' = <<>>
    /\ results' = <<>>
    /\ response' = NoResponse
    /\ idx' = 1
    /\ plugin_data' = <<>>
    /\ valid_repositories' = <<>>
    /\ skipped_plugins' = 0
    /\ archived_plugins' = 0
    /\ renamed_plugins' = 0
    /\ UNCHANGED <<repos_list, files, answers, json_file, last_sort>>

RerunNext ==
    \/ StartGather
    \/ \E i \in Tasks : RespondFirstRun(i)
    \/ \E i \in Tasks : RespondSecondRun(i)
    \/ \E i \in Tasks : OnRepository(i)
    \/ \E i \in Tasks : OnRootContents(i)
    \/ \E i \in Tasks : OnFolderContents(i)
    \/ \E i \in Tasks : OnManifest(i)
    \/ \E i \in Tasks : OnReleases(i)
    \/ GatherRaises
    \/ GatherReturns
    \/ ReduceResult
    \/ SaveFilteredJson
    \/ SaveDataJson
    \/ SaveRepositoriesJson
    \/ SummarizeResults
    \/ StartSecondRun

SpecRerun == InitRerun /\ [][RerunNext]_vars

-----------------------------------------------------------------------------
(* scripts/sort_json.py: sort_json called on a file, time and again *)

generator == <<repos_list, github, main_pc, pc, plugin, repo_data, results, response,
               idx, plugin_data, valid_repositories, skipped_plugins,
               archived_plugins, renamed_plugins, files, answers, before>>

InitSort ==
    /\ github = "batch"
    /\ repos_list = <<>>
    /\ Constructed
    /\ json_file \in JsonFiles
    /\ last_sort = NoCall

\* one call of sort_json; `again` tells a call that follows a call with
\* check_only=False that returned True
SortJson(check_only) ==
    /\ json_file' = SortJsonResult(json_file, check_only).file
    /\ last_sort' = [made |-> TRUE, check_only |-> check_only,
                     returned |-> SortJsonResult(json_file, check_only).returned,
                     before |-> json_file,
                     again |-> last_sort.made /\ ~last_sort.check_only /\ last_sort.returned]
    /\ UNCHANGED generator

SortNext == \E check_only \in BOOLEAN : SortJson(check_only)

SpecSort == InitSort /\ [][SortNext]_vars

-----------------------------------------------------------------------------
(* Properties *)

\* the positions before n whose resolution gave a result of the kind
Resolved(n, kind) == {k \in 1..(n - 1) : results[k].kind = kind}

\* the metadata of the record a resolution returned
RecordOf(result) == result.value[1][2]

IsRecord(result) == result.kind = "dict"

Written(path) == files[path].written

AllWritten ==
    \A path \in {"diff/after.json", "data.json", "repositories.json", "summary.json"} :
        Written(path)

SummaryField(k) == DictGet(files["summary.json"].content, k)

\* the response last delivered was to the call `op`, and its coroutine has run on it
Handled(op) == response.handled /\ response.op = op

\* C1: a fault in one repository never aborts the batch: no resolution raises,
\* generate_metadata is never ended by an exception, and once it is done all
\* four files are written.
C1_NoFaultAbortsBatch ==
    /\ \A i \in Tasks : pc[i] # "raised" /\ results[i].kind # "exception"
    /\ main_pc # "aborted"
    /\ main_pc = "done" => AllWritten

\* C2: when listReleases fails with NotFound, the resolution yields a record
\* with last_version None and no last_prerelease, as for an empty list.
C2_ReleasesNotFoundIsNoReleases ==
    (Handled("releases.list") /\ response.status = "NotFound")
        => /\ IsRecord(results[response.to])
           /\ DictGet(RecordOf(results[response.to]), "last_version") = NoneVal
           /\ ~DictHas(RecordOf(results[response.to]), "last_prerelease")

\* C3: the results reduced so far are split between valid, archived and
\* skipped, and a written summary has total = valid + archived + skipped with
\* total the length of the input list.
C3_SummaryAddsUp ==
    /\ idx - 1 = Len(valid_repositories) + archived_plugins + skipped_plugins
    /\ Written("summary.json") =>
          /\ SummaryField("total_plugins") = Len(repos_list)
          /\ SummaryField("total_plugins") =
                SummaryField("valid_plugins") + SummaryField("archived_plugins")
                + SummaryField("skipped_plugins")

\* C3 happens: a summary of two entries that resolved to one remote id
C3_Witness ==
    /\ Written("summary.json")
    /\ SummaryField("total_plugins") = 2
    /\ SummaryField("valid_plugins") = 2
    /\ Len(plugin_data) = 1

\* the names of the directories in a listing
DirNames(listing) == {listing[n].name : n \in {m \in DOMAIN listing : listing[m].type = "dir"}}

\* C4 (states): a resolution past domain discovery has a domain, the name of
\* the one directory under custom_plugins/; a resolution past the manifest has
\* a manifest that declares that domain; every record has a domain.
C4_DomainStates ==
    /\ \A i \in Tasks :
          /\ pc[i] \in {"contents.manifest", "releases.list"} => Truthy(plugin[i].domain)
          /\ pc[i] = "releases.list" =>
                /\ DictHas(plugin[i].manifest_data, "domain")
                /\ DictGet(plugin[i].manifest_data, "domain") = plugin[i].domain
          /\ IsRecord(results[i]) => Truthy(DictGet(RecordOf(results[i]), "domain"))
    /\ (Handled("contents.custom_plugins") /\ pc[response.to] = "contents.manifest") =>
          /\ response.status = "ok"
          /\ DirNames(response.data) = {plugin[response.to].domain}
    /\ (Handled("contents.manifest") /\ pc[response.to] = "releases.list") =>
          /\ response.status = "ok"
          /\ response.data.json /\ response.data.type = "object"
          /\ plugin[response.to].manifest_data = response.data.items
    /\ \A n \in DOMAIN plugin_data : Truthy(DictGet(plugin_data[n][2], "domain"))
    /\ Written("data.json") =>
          \A n \in DOMAIN files["data.json"].content :
              Truthy(DictGet(files["data.json"].content[n][2], "domain"))

\* C4 (steps): the domain of a resolution does not change once found, and the
\* record a resolution returns carries that domain, which its manifest declares.
C4_DomainSteps ==
    \A i \in Tasks :
        /\ (pc[i] \in {"contents.manifest", "releases.list"} /\ pc'[i] \in AwaitOps)
              => plugin'[i].domain = plugin[i].domain
        /\ (~IsRecord(results[i]) /\ IsRecord(results'[i])) =>
              /\ pc[i] = "releases.list"
              /\ DictGet(RecordOf(results'[i]), "domain") = plugin[i].domain
              /\ DictGet(RecordOf(results'[i]), "domain")
                    = DictGet(plugin[i].manifest_data, "domain")

\* C4: every record has a non-null domain, the name of the single directory
\* under custom_plugins/ and the domain its manifest declares.
C4_ValidDomainMatchesManifest == []C4_DomainStates /\ [][C4_DomainSteps]_vars

\* C4 happens: data.json holds a record of domain d1
C4_Witness ==
    /\ Written("data.json")
    /\ \E n \in DOMAIN files["data.json"].content :
          DictGet(files["data.json"].content[n][2], "domain") = "d1"

\* the (id, metadata) items in a mapping all come from records returned by
\* resolutions before position n
FromRecords(data, n) ==
    \A m \in DOMAIN data :
        \E k \in Resolved(n, "dict") :
            /\ results[k].value[1][1] = data[m][1]
            /\ FilteredMetadata(RecordOf(results[k])) = FilteredMetadata(data[m][2])

\* C5: a repository the API reports archived resolves to "archived"; the
\* archived results reduced so far are counted in archived_plugins and in no
\* other counter, and the records and repository strings come from the other
\* results only.
C5_ArchivedCountedOnce ==
    /\ (Handled("repos.get") /\ response.status = "ok" /\ response.data.archived)
          => /\ results[response.to].kind = "str"
             /\ results[response.to].value = "archived"
    /\ archived_plugins = Cardinality(Resolved(idx, "str"))
    /\ skipped_plugins = Cardinality(Resolved(idx, "None"))
    /\ Len(valid_repositories) = Cardinality(Resolved(idx, "dict"))
    /\ FromRecords(plugin_data, idx)
    /\ Written("diff/after.json") => FromRecords(files["diff/after.json"].content, idx)
    /\ Written("data.json") => FromRecords(files["data.json"].content, idx)
    /\ Written("repositories.json") =>
          Len(files["repositories.json"].content) = Cardinality(Resolved(idx, "dict"))
    /\ Written("summary.json") =>
          /\ SummaryField("archived_plugins") = Cardinality(Resolved(idx, "str"))
          /\ SummaryField("valid_plugins") = Cardinality(Resolved(idx, "dict"))
          /\ SummaryField("skipped_plugins") = Cardinality(Resolved(idx, "None"))

\* C5 happens: a finished run with an archived entry beside a valid one
C5_Witness ==
    /\ main_pc = "done"
    /\ SummaryField("archived_plugins") = 1
    /\ SummaryField("valid_plugins") = 1
    /\ SummaryField("skipped_plugins") = 0
    /\ Len(files["data.json"].content) = 1

\* the releases of a list that are prereleases (pre) or not
OfKind(l, pre) == {n \in DOMAIN l : l[n].prerelease = pre}

\* the tag of the release of the kind with the greatest creation time, the
\* first in the list among equals; None when there is none of the kind
NewestTag(l, pre) ==
    IF OfKind(l, pre) = {} THEN NoneVal
    ELSE l[CHOOSE n \in OfKind(l, pre) :
              \A m \in OfKind(l, pre) :
                  \/ l[m].created_at < l[n].created_at
                  \/ l[m].created_at = l[n].created_at /\ n <= m].tag_name

\* C6: for every list of releases, last_version is the tag of the newest
\* release that is no prerelease and last_prerelease that of the newest
\* prerelease, the first in the list among releases of one creation time, each
\* absent when there is no release of its kind.
C6_ReleaseResolution ==
    (Handled("releases.list") /\ response.status = "ok") =>
        /\ IsRecord(results[response.to])
        /\ LET m == RecordOf(results[response.to]) IN
             /\ DictGet(m, "last_version") = NewestTag(response.data, FALSE)
             /\ DictHas(m, "last_prerelease") <=> NewestTag(response.data, TRUE) # NoneVal
             /\ DictHas(m, "last_prerelease") =>
                   DictGet(m, "last_prerelease") = NewestTag(response.data, TRUE)

\* C6 happens: the list [v2 created 2, v3-rc created 3 prerelease, v1 created 1]
\* resolved to last_version v2 and last_prerelease v3-rc
C6_Witness ==
    /\ Handled("releases.list")
    /\ response.status = "ok"
    /\ response.data = <<Release("v2", 2, FALSE), Release("v3-rc", 3, TRUE),
                         Release("v1", 1, FALSE)>>
    /\ IsRecord(results[response.to])
    /\ DictGet(RecordOf(results[response.to]), "last_version") = "v2"
    /\ DictGet(RecordOf(results[response.to]), "last_prerelease") = "v3-rc"

\* C7 as stated: the repository of every record a resolution returns is the
\* full name the API reported for it.
C7_RepositoryIsCanonicalName ==
    [][\A i \in Tasks :
          (~IsRecord(results[i]) /\ IsRecord(results'[i])) =>
              DictGet(RecordOf(results'[i]), "repository") = repo_data[i].data.full_name]_vars

\* C7 amended: the repository of every record equals the full name the API
\* reported up to letter case: it is that full name when the input entry
\* differs from it by more than case, and the input entry itself otherwise.
C7_RepositoryIsCanonicalNameUpToCase ==
    [][\A i \in Tasks :
          (~IsRecord(results[i]) /\ IsRecord(results'[i])) =>
              LET repository == DictGet(RecordOf(results'[i]), "repository")
                  full_name == repo_data[i].data.full_name
              IN /\ Lower(repository) = Lower(full_name)
                 /\ Lower(full_name) # Lower(repos_list[i]) => repository = full_name
                 /\ Lower(full_name) = Lower(repos_list[i]) => repository = repos_list[i]]_vars

\* C7 happens: a record keeps the input spelling O/a, which the API spells o/a
C7_Witness ==
    \E i \in Tasks :
        /\ IsRecord(results[i])
        /\ repos_list[i] = <<"O", "/", "a">>
        /\ DictGet(RecordOf(results[i]), "repository") = <<"O", "/", "a">>

\* C8: renamed_plugins is the number of reduced positions whose record has a
\* repository other than the input entry at that position.
C8_RenamedIsIndexAligned ==
    renamed_plugins =
        Cardinality({k \in Resolved(idx, "dict") :
                        DictGet(RecordOf(results[k]), "repository") # repos_list[k]})

\* C9: a root listing without a directory named custom_plugins, or a
\* custom_plugins/ listing whose number of directories is not one, ends the
\* resolution as a rejection (None, no exception); rejections are counted in
\* skipped_plugins and give no record and no repository string.
C9_DomainDiscoveryRejects ==
    /\ (/\ Handled("contents.root")
        /\ response.status = "ok"
        /\ ~\E n \in DOMAIN response.data :
               response.data[n].name = "custom_plugins" /\ response.data[n].type = "dir")
          => results[response.to] = ReturnNone /\ pc[response.to] = "returned"
    /\ (/\ Handled("contents.custom_plugins")
        /\ response.status = "ok"
        /\ Cardinality({n \in DOMAIN response.data : response.data[n].type = "dir"}) # 1)
          => results[response.to] = ReturnNone /\ pc[response.to] = "returned"
    /\ skipped_plugins = Cardinality(Resolved(idx, "None"))
    /\ Len(valid_repositories) = Cardinality(Resolved(idx, "dict"))
    /\ FromRecords(plugin_data, idx)
    /\ Written("summary.json") =>
          SummaryField("skipped_plugins") = Cardinality(Resolved(Len(results) + 1, "None"))
    /\ Written("repositories.json") =>
          Len(files["repositories.json"].content)
             = Cardinality(Resolved(Len(results) + 1, "dict"))
    /\ Written("data.json") =>
          FromRecords(files["data.json"].content, Len(results) + 1)

\* C9 happens: custom_plugins/ held two directories and the resolution was rejected
C9_Witness ==
    /\ Handled("contents.custom_plugins")
    /\ response.status = "ok"
    /\ Len(Subfolders(response.data)) = 2
    /\ results[response.to] = ReturnNone

\* C10: a manifest that is not found, is not valid JSON, is JSON but no object,
\* or declares no domain or another domain than the folder, ends the
\* resolution as a rejection (None, no exception).
C10_ManifestValidationRejects ==
    [][\A i \in Tasks :
          (/\ Delivered(i, "contents.manifest")
           /\ \/ response.status = "NotFound"
              \/ /\ response.status = "ok"
                 /\ response.data.utf8
                 /\ \/ ~response.data.json
                    \/ response.data.type # "object"
                    \/ ~DictHas(response.data.items, "domain")
                    \/ DictGet(response.data.items, "domain") # plugin[i].domain)
              => /\ results'[i] = ReturnNone
                 /\ pc'[i] = "returned"]_vars

\* the position of the key k in the dict d
KeyPos(d, k) == CHOOSE n \in DOMAIN d : d[n][1] = k

\* the dict a is the dict d without the keys of `ignored`: no other key is
\* lost or added, each kept key has its value, and the kept keys are in the
\* order they have in d
IsDictWithout(a, d, ignored) ==
    /\ \A m \in DOMAIN a : a[m][1] \notin ignored /\ DictHas(d, a[m][1])
    /\ \A m \in DOMAIN d :
          d[m][1] \notin ignored => DictHas(a, d[m][1]) /\ DictGet(a, d[m][1]) = d[m][2]
    /\ \A m1, m2 \in DOMAIN a :
          m1 < m2 => a[m1][1] # a[m2][1] /\ KeyPos(d, a[m1][1]) < KeyPos(d, a[m2][1])

\* C11: diff/after.json is data.json with last_fetched, etag_release and
\* etag_repository removed from every record: the same repository ids in the
\* same order, and in each record every other field (manifest, domain,
\* last_updated, last_version, open_issues, repository, stargazers_count,
\* topics, and last_prerelease when the record has it) with its value and in
\* its relative order.
C11_AfterIsDataWithoutIgnored ==
    (Written("diff/after.json") /\ Written("data.json")) =>
        LET after == files["diff/after.json"].content
            data == files["data.json"].content
        IN /\ DictKeys(after) = DictKeys(data)
           /\ \A n \in DOMAIN data :
                 /\ IsDictWithout(after[n][2], data[n][2],
                                  {"last_fetched", "etag_release", "etag_repository"})
                 /\ \A k \in {"manifest", "domain", "last_updated", "last_version",
                              "open_issues", "repository", "stargazers_count", "topics"} :
                        DictHas(after[n][2], k)
                 /\ DictHas(after[n][2], "last_prerelease")
                       <=> DictHas(data[n][2], "last_prerelease")

\* C11 happens: both files hold two records, and the first record of
\* diff/after.json is three keys shorter than that of data.json
C11_Witness ==
    /\ Written("diff/after.json")
    /\ Written("data.json")
    /\ Len(files["data.json"].content) = 2
    /\ Len(files["diff/after.json"].content[1][2]) + 3 = Len(files["data.json"].content[1][2])

\* the input positions whose resolution returned a record
ValidPositions == {i \in DOMAIN results : IsRecord(results[i])}

\* C12: repositories.json lists the repository strings of the valid input
\* entries in input order, whatever the order in which the resolutions
\* completed: its k-th string is the repository of the record returned for the
\* k-th input entry that has a record.
C12_RepositoriesInInputOrder ==
    Written("repositories.json") =>
        LET content == files["repositories.json"].content IN
        /\ Len(content) = Cardinality(ValidPositions)
        /\ \A i \in ValidPositions :
              content[Cardinality({j \in ValidPositions : j <= i})]
                 = DictGet(RecordOf(results[i]), "repository")

\* C12 happens: the entries O/a and n/a both have a record, and
\* repositories.json lists O/a then n/a
C12_Witness ==
    /\ Written("repositories.json")
    /\ repos_list = << <<"O", "/", "a">>, <<"n", "/", "a">> >>
    /\ files["repositories.json"].content = << <<"O", "/", "a">>, <<"n", "/", "a">> >>

\* C13: two runs over the same input list and the same remote state write the
\* same diff/after.json, whatever the interleaving of the resolutions, the
\* fetch times and the etags of each run: the second run makes the calls the
\* first made, is not aborted, and once it has written diff/after.json the file
\* is what the first run left.
C13_SameAfterOnRerun ==
    github = "second" =>
        /\ \A i \in Tasks : pc[i] \in AwaitOps => OpNumber(pc[i]) <= Len(answers[i])
        /\ main_pc # "aborted"
        /\ main_pc \in {"save_data", "save_repositories", "summarize", "done"}
              => files["diff/after.json"] = before

\* C13 happens: the second run is done with two records, fetched at another
\* time and under other etags than in the first run (whose data.json it has
\* not overwritten with the same content)
C13_Witness ==
    /\ github = "second"
    /\ main_pc = "done"
    /\ Len(before.content) = 2
    /\ \A n \in DOMAIN files["data.json"].content :
          /\ DictGet(files["data.json"].content[n][2], "last_fetched") = "t2"
          /\ DictGet(files["data.json"].content[n][2], "etag_release") = "W/e"

\* the keys of a record are manifest, domain, then the others in ascending order
RecordKeysInOrder(m) ==
    /\ Len(m) >= 2
    /\ m[1][1] = "manifest"
    /\ m[2][1] = "domain"
    /\ \A a \in 3..(Len(m) - 1) : StrLess(m[a][1], m[a + 1][1])

\* C14: in every record (returned by a resolution, or written to data.json)
\* the keys are manifest, domain, then the other keys in ascending alphabetical
\* order; last_version is always there, None when the list of releases has no
\* stable release, and last_prerelease is there exactly when the list has a
\* prerelease.
C14_RecordKeyOrder ==
    /\ \A i \in DOMAIN results :
          IsRecord(results[i]) =>
              /\ RecordKeysInOrder(RecordOf(results[i]))
              /\ DictHas(RecordOf(results[i]), "last_version")
    /\ Written("data.json") =>
          \A n \in DOMAIN files["data.json"].content :
              /\ RecordKeysInOrder(files["data.json"].content[n][2])
              /\ DictHas(files["data.json"].content[n][2], "last_version")
    /\ (Handled("releases.list") /\ response.status = "ok" /\ IsRecord(results[response.to])) =>
          LET m == RecordOf(results[response.to]) IN
          /\ DictHas(m, "last_prerelease")
                <=> \E n \in DOMAIN response.data : response.data[n].prerelease
          /\ (\A n \in DOMAIN response.data : response.data[n].prerelease)
                => DictGet(m, "last_version") = NoneVal

\* C14 happens: a record with a last_prerelease and no stable release, in
\* data.json
C14_Witness ==
    /\ Written("data.json")
    /\ \E n \in DOMAIN files["data.json"].content :
          LET m == files["data.json"].content[n][2] IN
          /\ DictHas(m, "last_prerelease")
          /\ DictGet(m, "last_version") = NoneVal
          /\ DictKeys(m) = <<"manifest", "domain", "etag_release", "etag_repository",
                             "last_fetched", "last_prerelease", "last_updated",
                             "last_version", "open_issues", "repository",
                             "stargazers_count", "topics">>

\* C15: the join waits for every resolution: the reduction and the file writes
\* happen only once every launched resolution has completed (returned), no
\* counter, mapping entry or file changes while a resolution is in progress,
\* and no resolution is cancelled or kept from completing by a sibling that
\* fails or is rejected.
C15_AllCompleteJoin ==
    /\ main_pc \in {"reduce", "save_data", "save_repositories", "summarize", "done"}
          => \A i \in Tasks : pc[i] = "returned"
    /\ (main_pc \in {"start", "gather"} \/ \E i \in Tasks : pc[i] \in AwaitOps) =>
          /\ idx = 1
          /\ plugin_data = <<>>
          /\ valid_repositories = <<>>
          /\ skipped_plugins = 0 /\ archived_plugins = 0 /\ renamed_plugins = 0
          /\ \A path \in DOMAIN files : ~Written(path)
    /\ \A i \in Tasks : pc[i] # "cancelled"

\* coroutine i issues a call in this step: it is suspended at another await
\* than before
Issues(i, op) == pc'[i] = op /\ (i \notin DOMAIN pc \/ pc[i] # op)

\* C16 (step): a call is issued only by the coroutine that was answered the
\* call before it, and only when that answer let the step succeed
C16_CallAfterSuccess ==
    \A i \in DOMAIN pc' :
        /\ Issues(i, "repos.get") => main_pc = "start"
        /\ Issues(i, "contents.root") =>
              /\ Delivered(i, "repos.get")
              /\ response.status = "ok"
              /\ ~response.data.archived
        /\ Issues(i, "contents.custom_plugins") =>
              /\ Delivered(i, "contents.root")
              /\ response.status = "ok"
              /\ \E n \in DOMAIN response.data :
                    response.data[n].name = "custom_plugins" /\ response.data[n].type = "dir"
        /\ Issues(i, "contents.manifest") =>
              /\ Delivered(i, "contents.custom_plugins")
              /\ response.status = "ok"
              /\ Cardinality({n \in DOMAIN response.data : response.data[n].type = "dir"}) = 1
        /\ Issues(i, "releases.list") =>
              /\ Delivered(i, "contents.manifest")
              /\ response.status = "ok"
              /\ response.data.utf8 /\ response.data.json /\ response.data.type = "object"
              /\ DictHas(response.data.items, "domain")
              /\ DictGet(response.data.items, "domain") = plugin[i].domain
        /\ pc'[i] \in AwaitOps \cup {"returned", "raised", "cancelled"}

\* C16: the calls of a resolution are made in the order getRepository,
\* listDirectory(root), listDirectory(custom_plugins), getFileContent(manifest),
\* listReleases, each only after every earlier step succeeded: no call after
\* getRepository for an archived repository, and no listReleases when domain
\* discovery or manifest validation failed.
C16_CallsShortCircuit == [][C16_CallAfterSuccess]_vars

\* C16 happens: a resolution has made the first four calls and awaits listReleases
C16_Witness ==
    \E i \in Tasks : pc[i] = "releases.list" /\ Handled("contents.manifest") /\ response.to = i

\* C17: once a run is done, data.json has as many records as valid_plugins
\* says and as repositories.json has strings, and every string of
\* repositories.json is the repository of a record of data.json, also when two
\* input entries resolve to the same remote id.
C17_ValidCountsAgree ==
    main_pc = "done" =>
        LET data == files["data.json"].content
            repositories == files["repositories.json"].content
        IN /\ Len(data) = SummaryField("valid_plugins")
           /\ Len(data) = Len(repositories)
           /\ \A k \in DOMAIN repositories :
                 \E n \in DOMAIN data : DictGet(data[n][2], "repository") = repositories[k]

\* x is not greater than y: strings in str order, numbers in numeric order
ElementLeq(x, y) ==
    IF x.str /\ y.str THEN ~CharsLess(y.chars, x.chars)
    ELSE ~x.str /\ ~y.str /\ x.n <= y.n

\* the top-level value of the file is sorted: a list whose elements ascend, or
\* an object whose keys appear in ascending order
IsSorted(file) ==
    \/ /\ file.kind = "list"
       /\ \A k \in 1..(Len(file.value) - 1) : ElementLeq(file.value[k], file.value[k + 1])
    \/ /\ file.kind = "dict"
       /\ \A k \in 1..(Len(file.value) - 1) :
             CharsLess(file.value[k][1], file.value[k + 1][1])

\* the sequences a and b hold the same elements, each as many times
SameContents(a, b) ==
    \A x \in {a[n] : n \in DOMAIN a} \cup {b[n] : n \in DOMAIN b} :
        Cardinality({n \in DOMAIN a : a[n] = x}) = Cardinality({n \in DOMAIN b : b[n] = x})

\* C18: sort_json(file, check_only=True) leaves the file as it is and returns
\* True exactly when the file's top-level value is sorted (a list whose
\* elements ascend, an object whose keys appear in ascending order).
C18_CheckOnlyTellsSorted ==
    (last_sort.made /\ last_sort.check_only) =>
        /\ json_file = last_sort.before
        /\ last_sort.returned <=> IsSorted(last_sort.before)

\* C19: after sort_json(file, check_only=False) returned True on a list or an
\* object, the file's value is sorted and holds the elements (the key-value
\* pairs) it held before, and a second such call leaves the file as it is.
C19_SortSortsAndKeeps ==
    /\ (/\ last_sort.made /\ ~last_sort.check_only /\ last_sort.returned
        /\ last_sort.before.kind \in {"list", "dict"}) =>
          /\ IsSorted(json_file)
          /\ json_file.kind = last_sort.before.kind
          /\ SameContents(json_file.value, last_sort.before.value)
    /\ (last_sort.made /\ ~last_sort.check_only /\ last_sort.again) =>
          json_file = last_sort.before

=============================================================================
